---- MODULE Spec2Model ----
(***************************************************************************)
(* Bill extraction: the heuristic row parser (extraction_service.py), the  *)
(* validation helpers (validation_service.py) and the validation loop of   *)
(* extract_bill_data (main.py).                                            *)
(*                                                                         *)
(* Python values are tagged records: None, Float(q), Str(s), a dict of a   *)
(* line item, and Raise(e) for a propagating exception.  A float is the    *)
(* exact rational <<n, d>> (d > 0, lowest terms), so the rounding of       *)
(* binary floating point is left out (0.95 - 0.4 is 11/20 here and         *)
(* 0.5499999999999999 in Python); a text is a sequence of one-character    *)
(* strings over ASCII letters, digits, blank and $ , . + -                 *)
(***************************************************************************)
EXTENDS Integers, Sequences, FiniteSets, TLC

VARIABLES pc, ocr_results, llm_items, raw_items, llm_used, rows, row_i, item,
          items, val_i, result, valid_items, low_conf_names, suspicious,
          reconciled_amount, outliers, overall_conf, arg

vars == <<pc, ocr_results, llm_items, raw_items, llm_used, rows, row_i, item,
          items, val_i, result, valid_items, low_conf_names, suspicious,
          reconciled_amount, outliers, overall_conf, arg>>

----------------------------------------------------------------------------
(* Bounds of the model *)

\* longest fragment list of the vertical-layout inputs
MaxFrags == 5
\* longest single-line fragment list of the row inputs
MaxRowLen == 3
\* longest item list returned by the LLM extractor
MaxItems == 3

----------------------------------------------------------------------------
(* Python values *)

None == [tag |-> "None"]
Absent == [tag |-> "absent"]
Float(q) == [tag |-> "float", v |-> q]
Str(s) == [tag |-> "str", v |-> s]
Raise(e) == [tag |-> "raise", exc |-> e]

----------------------------------------------------------------------------
(* Exact arithmetic on floats, as rationals <<n, d>> *)

RECURSIVE GCD(_, _)
GCD(a, b) == IF b = 0 THEN a ELSE GCD(b, a % b)

Abs(n) == IF n < 0 THEN -n ELSE n

Norm(n, d) ==
    LET s == IF d < 0 THEN -1 ELSE 1
        g == GCD(Abs(n), Abs(d))
    IN  <<(s * n) \div g, (s * d) \div g>>

Q(n) == <<n, 1>>
RAdd(a, b) == Norm(a[1] * b[2] + b[1] * a[2], a[2] * b[2])
RSub(a, b) == Norm(a[1] * b[2] - b[1] * a[2], a[2] * b[2])
RMul(a, b) == Norm(a[1] * b[1], a[2] * b[2])
RDiv(a, b) == Norm(a[1] * b[2], a[2] * b[1])
RLt(a, b) == a[1] * b[2] < b[1] * a[2]
RLe(a, b) == a[1] * b[2] <= b[1] * a[2]
RMax(a, b) == IF RLt(a, b) THEN b ELSE a
RMin(a, b) == IF RLt(b, a) THEN b ELSE a

RECURSIVE RSum(_)
RSum(s) == IF s = <<>> THEN Q(0) ELSE RAdd(s[1], RSum(Tail(s)))

RECURSIVE Pow10(_)
Pow10(k) == IF k = 0 THEN 1 ELSE 10 * Pow10(k - 1)

\* a / b of two floats: ZeroDivisionError on a zero divisor
PyDiv(a, b) == IF b[1] = 0 THEN Raise("ZeroDivisionError") ELSE Float(RDiv(a, b))

----------------------------------------------------------------------------
(* Texts *)

Digits == {"0", "1", "2", "3", "4", "5", "6", "7", "8", "9"}

DigitVal ==
    [c \in Digits |->
        CASE c = "0" -> 0 [] c = "1" -> 1 [] c = "2" -> 2 [] c = "3" -> 3
          [] c = "4" -> 4 [] c = "5" -> 5 [] c = "6" -> 6 [] c = "7" -> 7
          [] c = "8" -> 8 [] c = "9" -> 9]

Whitespace == {" "}

UpperCase ==
    [A |-> "a", B |-> "b", C |-> "c", D |-> "d", E |-> "e", F |-> "f",
     G |-> "g", H |-> "h", I |-> "i", J |-> "j", K |-> "k", L |-> "l",
     M |-> "m", N |-> "n", O |-> "o", P |-> "p", Q |-> "q", R |-> "r",
     S |-> "s", T |-> "t", U |-> "u", V |-> "v", W |-> "w", X |-> "x",
     Y |-> "y", Z |-> "z"]

\* str.lower()
lower(s) == [i \in 1..Len(s) |-> IF s[i] \in DOMAIN UpperCase THEN UpperCase[s[i]] ELSE s[i]]

RECURSIVE lstrip(_)
lstrip(s) == IF s # <<>> /\ s[1] \in Whitespace THEN lstrip(Tail(s)) ELSE s

RECURSIVE rstrip(_)
rstrip(s) ==
    IF s # <<>> /\ s[Len(s)] \in Whitespace THEN rstrip(SubSeq(s, 1, Len(s) - 1)) ELSE s

\* str.strip()
strip(s) == rstrip(lstrip(s))

\* " ".join(ts)
RECURSIVE join(_)
join(ts) ==
    IF ts = <<>> THEN <<>>
    ELSE IF Len(ts) = 1 THEN ts[1]
    ELSE ts[1] \o <<" ">> \o join(Tail(ts))

\* k in s
contains(s, k) == \E i \in 0..(Len(s) - Len(k)) : SubSeq(s, i + 1, i + Len(k)) = k

RECURSIVE Filter(_, _)
Filter(s, drop) ==
    IF s = <<>> THEN <<>>
    ELSE IF s[1] \in drop THEN Filter(Tail(s), drop)
    ELSE <<s[1]>> \o Filter(Tail(s), drop)

\* the longest prefix of s made of digits
RECURSIVE DigitRun(_)
DigitRun(s) ==
    IF s # <<>> /\ s[1] \in Digits THEN <<s[1]>> \o DigitRun(Tail(s)) ELSE <<>>

RECURSIVE IntOf(_)
IntOf(ds) == IF ds = <<>> THEN 0 ELSE 10 * IntOf(SubSeq(ds, 1, Len(ds) - 1)) + DigitVal[ds[Len(ds)]]

\* the characters re.sub(r"[...,\s]", "", text) removes (of the model's alphabet)
Stripped == {"$", ","} \cup Whitespace

\* the digits after a decimal point that opens rest
FracDigits(rest) == IF rest # <<>> /\ rest[1] = "." THEN DigitRun(Tail(rest)) ELSE <<>>

\* the value of the decimal numeral ip.fp
DecimalValue(ip, fp) == Norm(IntOf(ip \o fp), Pow10(Len(fp)))

\* float(m.group(1)) of the match of \d+\.?\d* at the head of m
MatchValue(m) ==
    Float(DecimalValue(DigitRun(m), FracDigits(SubSeq(m, Len(DigitRun(m)) + 1, Len(m)))))

\* re.search(r"(\d+\.?\d*)", cleaned): the match starts at the first digit
SearchNumber(cleaned) ==
    IF \A i \in 1..Len(cleaned) : cleaned[i] \notin Digits THEN None
    ELSE MatchValue(SubSeq(cleaned,
                           CHOOSE i \in 1..Len(cleaned) :
                               /\ cleaned[i] \in Digits
                               /\ \A j \in 1..(i - 1) : cleaned[j] \notin Digits,
                           Len(cleaned)))

_extract_number(text) == SearchNumber(Filter(text, Stripped))

----------------------------------------------------------------------------
(* Fragments, rows and line-item dicts *)

\* an OCR fragment {"text": ..., "bbox": [x, y, w, h]}; bbox[1] is x, bbox[2] is y
Frag(t, x, y) == [text |-> t, bbox |-> <<x, y, 10, 10>>]

\* a dict with the four line-item keys; get() of any other key finds it absent
Dict(name, qty, rate, amt) ==
    [tag |-> "dict", item_name |-> name, item_quantity |-> qty,
     item_rate |-> rate, item_amount |-> amt, conf |-> Absent]

\* item.get(key, default)
get(d, key, default) == IF d[key] = Absent THEN default ELSE d[key]

\* the place of x in the sorted list srt: after every element whose key is <= x's
Insert(x, srt, k) ==
    LET n == Cardinality({i \in 1..Len(srt) : srt[i].bbox[k] <= x.bbox[k]})
    IN  SubSeq(srt, 1, n) \o <<x>> \o SubSeq(srt, n + 1, Len(srt))

\* sorted(s, key=lambda x: x["bbox"][k - 1]), a stable sort
RECURSIVE sorted(_, _)
sorted(s, k) ==
    IF s = <<>> THEN <<>>
    ELSE Insert(s[Len(s)], sorted(SubSeq(s, 1, Len(s) - 1), k), k)

----------------------------------------------------------------------------
(* extraction_service.py *)

y_thresh == 25

\* the row test of the walk: the fragment against the last one placed in current
JoinsRowFirst(current, it) == Abs(it.bbox[2] - current[1].bbox[2]) < y_thresh
JoinsRow(current, it) == Abs(it.bbox[2] - current[Len(current)].bbox[2]) < y_thresh

\* closing the open row: kept only with two fragments or more
CloseRowAlways(rs, current) == Append(rs, current)
CloseRow(rs, current) == IF Len(current) >= 2 THEN Append(rs, current) ELSE rs

\* the loop over sorted_items, from its index i on
RECURSIVE Walk(_, _, _, _)
Walk(sorted_items, i, rs, current) ==
    IF i > Len(sorted_items) THEN CloseRow(rs, current)
    ELSE LET it == sorted_items[i]
         IN  IF current = <<>> THEN Walk(sorted_items, i + 1, rs, <<it>>)
             ELSE IF JoinsRow(current, it)
                  THEN Walk(sorted_items, i + 1, rs, Append(current, it))
                  ELSE Walk(sorted_items, i + 1, CloseRow(rs, current), <<it>>)

_group_into_rows(results) ==
    IF results = <<>> THEN <<>> ELSE Walk(sorted(results, 2), 1, <<>>, <<>>)

T_item == <<"i", "t", "e", "m">>
T_product == <<"p", "r", "o", "d", "u", "c", "t">>
T_description == <<"d", "e", "s", "c", "r", "i", "p", "t", "i", "o", "n">>
T_name == <<"n", "a", "m", "e">>
T_qty == <<"q", "t", "y">>
T_quantity == <<"q", "u", "a", "n", "t", "i", "t", "y">>
T_rate == <<"r", "a", "t", "e">>
T_price == <<"p", "r", "i", "c", "e">>
T_amount == <<"a", "m", "o", "u", "n", "t">>
T_total == <<"t", "o", "t", "a", "l">>
T_mrp == <<"m", "r", "p">>

header_kw ==
    {T_item, T_product, T_description, T_name, T_qty, T_quantity, T_rate,
     T_price, T_amount, T_total, T_mrp}

_is_header_row(row) ==
    LET text == join([i \in 1..Len(row) |-> lower(row[i].text)])
        matches == Cardinality({k \in header_kw : contains(text, k)})
    IN  matches >= 2

\* the rate of a row with two numbers
TwoNumberRateUnguarded(qty, amt) == PyDiv(amt, qty)
TwoNumberRate(qty, amt) == IF RLt(Q(0), qty) THEN PyDiv(amt, qty) ELSE Float(Q(0))

\* the name test: an empty or one-character name is a bad item name
BadNameNever(item_name) == FALSE
BadName(item_name) == item_name = <<>> \/ Len(item_name) < 2

\* qty, rate and amt from the numbers of the row, by their count
Quantity(numeric_values) ==
    IF Len(numeric_values) >= 3 THEN numeric_values[Len(numeric_values) - 2]
    ELSE IF Len(numeric_values) = 2 THEN numeric_values[1]
    ELSE Float(Q(1))

Amount(numeric_values) == numeric_values[Len(numeric_values)]

Rate(numeric_values) ==
    IF Len(numeric_values) >= 3 THEN numeric_values[Len(numeric_values) - 1]
    ELSE IF Len(numeric_values) = 2
         THEN TwoNumberRate(numeric_values[1].v, numeric_values[2].v)
    ELSE numeric_values[1]

\* the result dict; an exception of the division propagates
MakeItem(item_name, qty, rate, amt) ==
    IF rate.tag = "raise" THEN rate ELSE Dict(Str(item_name), qty, rate, amt)

ParseNamed(item_name, numeric_values) ==
    IF BadName(item_name) THEN None
    ELSE MakeItem(item_name, Quantity(numeric_values), Rate(numeric_values),
                  Amount(numeric_values))

\* numeric_indices[0]
FirstNumIdx(nums) ==
    CHOOSE i \in 1..Len(nums) : nums[i] # None /\ \A j \in 1..(i - 1) : nums[j] = None

ParseNums(texts, nums) ==
    IF \A i \in 1..Len(nums) : nums[i] = None THEN None
    ELSE ParseNamed(strip(join(SubSeq(texts, 1, FirstNumIdx(nums) - 1))),
                    Filter(nums, {None}))

ParseTexts(texts) == ParseNums(texts, [i \in 1..Len(texts) |-> _extract_number(texts[i])])

_parse_row(row) == ParseTexts([i \in 1..Len(row) |-> strip(sorted(row, 1)[i].text)])

T_subtotal == <<"s", "u", "b", "t", "o", "t", "a", "l">>
T_sub_total == <<"s", "u", "b", "-", "t", "o", "t", "a", "l">>
T_grand_total == <<"g", "r", "a", "n", "d", " ", "t", "o", "t", "a", "l">>
T_net_total == <<"n", "e", "t", " ", "t", "o", "t", "a", "l">>
T_cgst == <<"c", "g", "s", "t">>
T_sgst == <<"s", "g", "s", "t">>
T_igst == <<"i", "g", "s", "t">>
T_tax == <<"t", "a", "x">>
T_gst == <<"g", "s", "t">>
T_vat == <<"v", "a", "t">>
T_discount == <<"d", "i", "s", "c", "o", "u", "n", "t">>
T_round_off == <<"r", "o", "u", "n", "d", " ", "o", "f", "f">>
T_amount_due == <<"a", "m", "o", "u", "n", "t", " ", "d", "u", "e">>

exclude ==
    {T_subtotal, T_sub_total, T_total, T_grand_total, T_net_total, T_cgst,
     T_sgst, T_igst, T_tax, T_gst, T_vat, T_discount, T_round_off, T_amount_due}

_should_include_all(it) == TRUE
_should_include(it) ==
    LET name == lower(it.item_name.v)
    IN  ~ \E k \in exclude : contains(name, k)

----------------------------------------------------------------------------
(* validation_service.py *)

\* float(u) of a text without sign: digits and an optional fraction, no more
UnsignedValue(u, neg) ==
    IF /\ DigitRun(u) \o FracDigits(SubSeq(u, Len(DigitRun(u)) + 1, Len(u))) # <<>>
       /\ \/ Len(DigitRun(u)) = Len(u)
          \/ /\ u[Len(DigitRun(u)) + 1] = "."
             /\ Len(u) = Len(DigitRun(u)) + 1
                         + Len(FracDigits(SubSeq(u, Len(DigitRun(u)) + 1, Len(u))))
    THEN Float(RMul(Q(IF neg THEN -1 ELSE 1),
                    DecimalValue(DigitRun(u),
                                 FracDigits(SubSeq(u, Len(DigitRun(u)) + 1, Len(u))))))
    ELSE Raise("ValueError")

\* float(t) of a stripped text: an optional sign first
SignedValue(t) ==
    IF t # <<>> /\ t[1] \in {"-", "+"} THEN UnsignedValue(Tail(t), t[1] = "-")
    ELSE UnsignedValue(t, FALSE)

\* float(s) of a text; a text that is no decimal numeral is a ValueError
PyFloatStr(s) == SignedValue(strip(s))

\* float(v)
PyFloat(v) ==
    CASE v.tag = "float" -> v
      [] v.tag = "str" -> PyFloatStr(v.v)
      [] OTHER -> Raise("TypeError")

\* bool(v)
truthy(v) ==
    CASE v.tag = "None" -> FALSE
      [] v.tag = "float" -> v.v[1] # 0
      [] v.tag = "str" -> v.v # <<>>
      [] OTHER -> TRUE

\* float(item.get(key, 0) or 0)
NumberOrZeroStrict(it, key) == PyFloat(it[key])
NumberOrZero(it, key) ==
    LET got == get(it, key, Float(Q(0)))
    IN  PyFloat(IF truthy(got) THEN got ELSE Float(Q(0)))

BaseConf == <<19, 20>>
NamePenalty == <<2, 5>>
IssuePenalty == <<1, 5>>
LowConf == <<17, 20>>

\* the confidence heuristic, clamped to [0, 1]
ConfidenceFlat(it, issues) == BaseConf
Confidence(it, issues) ==
    LET c0 == BaseConf
        c1 == IF ~ truthy(get(it, "item_name", None)) THEN RSub(c0, NamePenalty) ELSE c0
        c2 == IF issues # <<>> THEN RSub(c1, RMul(IssuePenalty, Q(Len(issues)))) ELSE c1
    IN  RMax(Q(0), RMin(Q(1), c2))

\* the issues of a quantity and an amount, in the order they are appended
IssuesOf(qty, amt) ==
    (IF RLe(qty, Q(0)) THEN <<"non_positive_quantity">> ELSE <<>>)
    \o (IF RLe(amt, Q(0)) THEN <<"non_positive_amount">> ELSE <<>>)

Verdict(it, issues) ==
    [ok |-> Len(issues) = 0, conf |-> Confidence(it, issues), issues |-> issues]

Validated(it, qty, amt) ==
    IF qty.tag = "raise" \/ amt.tag = "raise"
    THEN [ok |-> FALSE, conf |-> Q(0), issues |-> <<"invalid_numbers">>]
    ELSE Verdict(it, IssuesOf(qty.v, amt.v))

validate_line_item(it) ==
    Validated(it, NumberOrZero(it, "item_quantity"), NumberOrZero(it, "item_amount"))

\* the amounts of the items whose amount converts to a float
RECURSIVE Amounts(_)
Amounts(its) ==
    IF its = <<>> THEN <<>>
    ELSE (IF NumberOrZero(its[1], "item_amount").tag = "raise" THEN <<>>
          ELSE <<NumberOrZero(its[1], "item_amount").v>>) \o Amounts(Tail(its))

Sq(a) == RMul(a, a)

\* statistics.mean
Mean(amounts) == RDiv(RSum(amounts), Q(Len(amounts)))

\* the square of statistics.pstdev: the population variance
PVariance(amounts) ==
    RDiv(RSum([i \in 1..Len(amounts) |-> Sq(RSub(amounts[i], Mean(amounts)))]),
         Q(Len(amounts)))

Sigmas == 3

\* abs(a - mean) > 3 * stdev.  mean, stdev, a - mean and 3 * stdev are doubles
\* rounded to nearest, and the model's amounts are exact: when the exact values
\* differ the comparison is decided on their squares, and when they are equal
\* (the deviation is exactly 3 standard deviations) the roundings decide it,
\* either way, which is the outcome `tie`.  Python 3.11 on [7.0]*9 + [8.0]:
\* mean 7.1, abs(a - mean) 0.9000000000000004, 3 * stdev 0.8999999999999999,
\* so 8.0 is flagged; on [1.0]*9 + [2.0] both sides are equal, nothing is.
IsOutlierOneSigma(a, mean, variance, tie) ==
    IF Sq(RSub(a, mean)) = variance THEN tie
    ELSE RLt(variance, Sq(RSub(a, mean)))
IsOutlier(a, mean, variance, tie) ==
    IF Sq(RSub(a, mean)) = RMul(Q(Sigmas * Sigmas), variance) THEN tie
    ELSE RLt(RMul(Q(Sigmas * Sigmas), variance), Sq(RSub(a, mean)))

RECURSIVE OutliersOf(_, _, _, _)
OutliersOf(amounts, mean, variance, tie) ==
    IF amounts = <<>> THEN <<>>
    ELSE (IF IsOutlier(amounts[1], mean, variance, tie) THEN <<amounts[1]>> ELSE <<>>)
         \o OutliersOf(Tail(amounts), mean, variance, tie)

Flagged(amounts, mean, variance, tie) ==
    IF variance[1] = 0 THEN <<>> ELSE OutliersOf(amounts, mean, variance, tie)

OutliersAmong(amounts, tie) ==
    IF Len(amounts) < 2 THEN <<>>
    ELSE Flagged(amounts, Mean(amounts), PVariance(amounts), tie)

detect_outlier_amounts(its, tie) == OutliersAmong(Amounts(its), tie)

\* float(it.get("conf", 0.95)), 0.95 when the conversion fails
ConfOr(c) == IF c.tag = "raise" THEN BaseConf ELSE c.v
ItemConf(it) == ConfOr(PyFloat(get(it, "conf", Float(BaseConf))))

compute_overall_confidence(its) ==
    IF its = <<>> THEN Q(0)
    ELSE RDiv(RSum([i \in 1..Len(its) |-> ItemConf(its[i])]), Q(Len(its)))

----------------------------------------------------------------------------
(* Inputs *)

W_Paracetamol == <<"P", "a", "r", "a", "c", "e", "t", "a", "m", "o", "l">>
W_Total == <<"T", "o", "t", "a", "l">>
W_Ab == <<"A", "b">>
W_A == <<"A">>
W_Tax == <<"T", "a", "x">>
W_Qty == <<"Q", "t", "y">>
W_Rate == <<"R", "a", "t", "e">>
W_blank == <<" ">>
W_abc == <<"a", "b", "c">>
W_10 == <<"1", "0">>
W_2_5 == <<"2", ".", "5">>
W_25_0 == <<"2", "5", ".", "0">>
W_5 == <<"5">>
W_0 == <<"0">>
W_dollar_2_5 == <<"$", "2", ".", "5">>

\* Scenario A: two visual rows, the second one row threshold below the first
ScenarioA ==
    <<Frag(W_Paracetamol, 0, 100), Frag(W_10, 200, 100), Frag(W_2_5, 300, 100),
      Frag(W_25_0, 400, 100), Frag(W_Total, 0, 100 + y_thresh),
      Frag(W_25_0, 400, 100 + y_thresh)>>

SeqsUpTo(S, lo, hi) == UNION {[1..n -> S] : n \in lo..hi}

\* fragments at varying heights, from left to right in input order
Ys == {0, 20, 25, 40, 65}
LayoutInputs ==
    {[i \in 1..Len(ys) |-> Frag(IF i % 2 = 1 THEN W_Ab ELSE W_5, 100 * i, ys[i])] :
        ys \in SeqsUpTo(Ys, 0, MaxFrags)}

\* fragments of one visual line, listed from left to right or from right to left
RowTexts == {W_Ab, W_A, W_blank, W_Tax, W_Qty, W_Rate, W_5, W_0, W_dollar_2_5}
RowInputs ==
    {[i \in 1..Len(ts) |-> Frag(ts[i], 100 * (IF rev THEN Len(ts) - i ELSE i), 0)] :
        ts \in SeqsUpTo(RowTexts, 2, MaxRowLen), rev \in BOOLEAN}

OCRInputs == {ScenarioA} \cup LayoutInputs \cup RowInputs

\* the dicts the LLM extractor builds: a text name and three floats
LLMDict(name, qty, amt) == Dict(Str(name), Float(Q(qty)), Float(Q(amt)), Float(Q(amt)))

LLMItems == {LLMDict(nm, q, a) : nm \in {<<>>, W_Ab}, q \in {-1, 2}, a \in {0, 5}}

\* Scenario C: four valid items with amounts 10, 12, 9 and 500
ScenarioC ==
    <<LLMDict(W_Ab, 1, 10), LLMDict(W_Ab, 1, 12), LLMDict(W_Ab, 1, 9),
      LLMDict(W_Ab, 1, 500)>>

LLMInputs == {ScenarioC} \cup SeqsUpTo(LLMItems, 1, MaxItems)

\* the dicts validate_line_item is called with: any key may be absent, None,
\* a text or a float
FieldValues ==
    {Absent, None, Str(<<>>), Str(W_abc), Str(W_5), Float(Q(-1)), Float(Q(0)),
     Float(Q(2))}
NameValues == {Absent, None, Str(<<>>), Str(W_Ab)}
ItemDicts ==
    {Dict(nm, q, Float(Q(1)), a) : nm \in NameValues, q \in FieldValues, a \in FieldValues}

----------------------------------------------------------------------------
(* extract_bill_data, from the OCR and LLM results on *)

Init ==
    /\ pc = "llm"
    /\ \/ llm_items = <<>> /\ ocr_results \in OCRInputs
       \/ llm_items \in LLMInputs /\ ocr_results = ScenarioA
    /\ raw_items = <<>>
    /\ llm_used = FALSE
    /\ rows = <<>>
    /\ row_i = 0
    /\ item = None
    /\ items = <<>>
    /\ val_i = 0
    /\ result = None
    /\ valid_items = <<>>
    /\ low_conf_names = <<>>
    /\ suspicious = <<>>
    /\ reconciled_amount = Q(0)
    /\ outliers = <<>>
    /\ overall_conf = Q(0)
    /\ arg = None

\* raw_items = extract_items_with_llm(ocr_text); llm_used = bool(raw_items)
CallLLM ==
    /\ pc = "llm"
    /\ raw_items' = llm_items
    /\ llm_used' = (llm_items # <<>>)
    /\ pc' = IF llm_items # <<>> THEN "validate" ELSE "fallback"
    /\ UNCHANGED <<ocr_results, llm_items, rows, row_i, item, items, val_i, result,
                   valid_items, low_conf_names, suspicious, reconciled_amount,
                   outliers, overall_conf, arg>>

\* parse_line_items: rows = _group_into_rows(ocr_results)
GroupRows ==
    /\ pc = "fallback"
    /\ rows' = _group_into_rows(ocr_results)
    /\ pc' = "header"
    /\ UNCHANGED <<ocr_results, llm_items, raw_items, llm_used, row_i, item, items,
                   val_i, result, valid_items, low_conf_names, suspicious,
                   reconciled_amount, outliers, overall_conf, arg>>

RECURSIVE DropHeaders(_)
DropHeaders(rs) ==
    IF rs = <<>> THEN <<>>
    ELSE (IF _is_header_row(rs[1]) THEN <<>> ELSE <<rs[1]>>) \o DropHeaders(Tail(rs))

\* parse_line_items: rows = [r for r in rows if not _is_header_row(r)]
FilterHeaders ==
    /\ pc = "header"
    /\ rows' = DropHeaders(rows)
    /\ items' = <<>>
    /\ row_i' = 0
    /\ pc' = "parse"
    /\ UNCHANGED <<ocr_results, llm_items, raw_items, llm_used, item, val_i, result,
                   valid_items, low_conf_names, suspicious, reconciled_amount,
                   outliers, overall_conf, arg>>

\* the body of the loop over rows, for the item _parse_row returned
ParseRowBody(it) ==
    /\ item' = it
    /\ IF it.tag = "raise"
       THEN pc' = "error" /\ UNCHANGED items
       ELSE /\ pc' = "parse"
            /\ items' = IF it # None /\ _should_include(it)
                        THEN Append(items, it) ELSE items

\* parse_line_items: one turn of the loop over rows
ParseRow ==
    /\ pc = "parse"
    /\ row_i < Len(rows)
    /\ ParseRowBody(_parse_row(rows[row_i + 1]))
    /\ row_i' = row_i + 1
    /\ UNCHANGED <<ocr_results, llm_items, raw_items, llm_used, rows, val_i, result,
                   valid_items, low_conf_names, suspicious, reconciled_amount,
                   outliers, overall_conf, arg>>

\* parse_line_items returns; raw_items = parse_line_items(ocr_results)
ReturnItems ==
    /\ pc = "parse"
    /\ row_i = Len(rows)
    /\ raw_items' = items
    /\ pc' = "validate"
    /\ UNCHANGED <<ocr_results, llm_items, llm_used, rows, row_i, item, items, val_i,
                   result, valid_items, low_conf_names, suspicious, reconciled_amount,
                   outliers, overall_conf, arg>>

ValidateBodyByConf(it, r) ==
    /\ result' = r
    /\ IF r.ok /\ ~ RLt(r.conf, LowConf)
       THEN /\ valid_items' = Append(valid_items, it)
            /\ UNCHANGED <<suspicious, low_conf_names>>
       ELSE /\ suspicious' = Append(suspicious, [item |-> it, issues |-> r.issues])
            /\ UNCHANGED <<valid_items, low_conf_names>>

\* the body of the validation loop, for the item it and its verdict r
ValidateBody(it, r) ==
    /\ result' = r
    /\ IF r.ok
       THEN /\ low_conf_names' = IF RLt(r.conf, LowConf)
                                 THEN Append(low_conf_names, it.item_name)
                                 ELSE low_conf_names
            /\ valid_items' = Append(valid_items, it)
            /\ UNCHANGED suspicious
       ELSE /\ suspicious' = Append(suspicious, [item |-> it, issues |-> r.issues])
            /\ UNCHANGED <<valid_items, low_conf_names>>

\* one turn of the validation loop over raw_items
ValidateItem ==
    /\ pc = "validate"
    /\ val_i < Len(raw_items)
    /\ ValidateBody(raw_items[val_i + 1], validate_line_item(raw_items[val_i + 1]))
    /\ val_i' = val_i + 1
    /\ UNCHANGED <<pc, ocr_results, llm_items, raw_items, llm_used, rows, row_i, item,
                   items, reconciled_amount, outliers, overall_conf, arg>>

\* the metrics computed after the loop
Metrics ==
    /\ pc = "validate"
    /\ val_i = Len(raw_items)
    /\ reconciled_amount' = RSum([i \in 1..Len(valid_items) |-> valid_items[i].item_amount.v])
    /\ \E tie \in BOOLEAN : outliers' = detect_outlier_amounts(valid_items, tie)
    /\ overall_conf' = compute_overall_confidence(valid_items)
    /\ pc' = "done"
    /\ UNCHANGED <<ocr_results, llm_items, raw_items, llm_used, rows, row_i, item, items,
                   val_i, result, valid_items, low_conf_names, suspicious, arg>>

Next ==
    \/ CallLLM
    \/ GroupRows
    \/ FilterHeaders
    \/ ParseRow
    \/ ReturnItems
    \/ ValidateItem
    \/ Metrics

Spec == Init /\ [][Next]_vars

----------------------------------------------------------------------------
(* validate_line_item called on its own *)

InitValidator ==
    /\ pc = "call"
    /\ arg \in ItemDicts
    /\ result = None
    /\ ocr_results = <<>>
    /\ llm_items = <<>>
    /\ raw_items = <<>>
    /\ llm_used = FALSE
    /\ rows = <<>>
    /\ row_i = 0
    /\ item = None
    /\ items = <<>>
    /\ val_i = 0
    /\ valid_items = <<>>
    /\ low_conf_names = <<>>
    /\ suspicious = <<>>
    /\ reconciled_amount = Q(0)
    /\ outliers = <<>>
    /\ overall_conf = Q(0)

CallValidator ==
    /\ pc = "call"
    /\ result' = validate_line_item(arg)
    /\ pc' = "return"
    /\ UNCHANGED <<ocr_results, llm_items, raw_items, llm_used, rows, row_i, item, items,
                   val_i, valid_items, low_conf_names, suspicious, reconciled_amount,
                   outliers, overall_conf, arg>>

NextValidator == CallValidator

SpecValidator == InitValidator /\ [][NextValidator]_vars

----------------------------------------------------------------------------
(* detect_outlier_amounts called on its own *)

MaxAmounts == 10

\* lists of items whose amounts are 7.0 or 8.0
AmountValues == {7, 8}
AmountItems == {LLMDict(W_Ab, 2, a) : a \in AmountValues}
AmountLists == SeqsUpTo(AmountItems, 0, MaxAmounts)

InitOutliers ==
    /\ pc = "call"
    /\ arg \in AmountLists
    /\ result = None
    /\ ocr_results = <<>>
    /\ llm_items = <<>>
    /\ raw_items = <<>>
    /\ llm_used = FALSE
    /\ rows = <<>>
    /\ row_i = 0
    /\ item = None
    /\ items = <<>>
    /\ val_i = 0
    /\ valid_items = <<>>
    /\ low_conf_names = <<>>
    /\ suspicious = <<>>
    /\ reconciled_amount = Q(0)
    /\ outliers = <<>>
    /\ overall_conf = Q(0)

CallOutliers ==
    /\ pc = "call"
    /\ \E tie \in BOOLEAN : outliers' = detect_outlier_amounts(arg, tie)
    /\ pc' = "return"
    /\ UNCHANGED <<ocr_results, llm_items, raw_items, llm_used, rows, row_i, item, items,
                   val_i, result, valid_items, low_conf_names, suspicious,
                   reconciled_amount, overall_conf, arg>>

NextOutliers == CallOutliers

SpecOutliers == InitOutliers /\ [][NextOutliers]_vars

----------------------------------------------------------------------------
(* Claims *)

F(n) == Float(Q(n))

\* the y coordinate of a fragment
YOf(f) == f.bbox[2]

\* the run on the Scenario A fragments, the LLM extractor returning nothing
ScenarioARun == ocr_results = ScenarioA /\ llm_items = <<>>
ParacetamolItem == Dict(Str(W_Paracetamol), F(10), Float(<<5, 2>>), F(25))

\* C1: Scenario A end to end.  The six fragments form two rows; the Total row
\* passes the header filter, is parsed by _parse_row and is then dropped by
\* _should_include, so parse_line_items returns exactly the Paracetamol item
\* (quantity 10, rate 2.5, amount 25.0); validation accepts it and
\* detect_outlier_amounts returns no outliers.
C1_ScenarioA ==
    ScenarioARun =>
        /\ pc \in {"header", "parse"} => Len(rows) = 2
        /\ pc = "parse" /\ row_i = 1 => item = ParacetamolItem /\ items = <<item>>
        /\ pc = "parse" /\ row_i = 2 =>
              /\ item = Dict(Str(W_Total), F(1), F(25), F(25))
              /\ items = <<ParacetamolItem>>
        /\ pc \in {"validate", "done"} => raw_items = <<ParacetamolItem>>
        /\ pc = "done" =>
              /\ valid_items = <<ParacetamolItem>>
              /\ suspicious = <<>>
              /\ outliers = <<>>
C1_Witness ==
    ScenarioARun /\ pc = "done" /\ Len(valid_items) = 1 /\ item.item_name = Str(W_Total)

\* C2: every row _group_into_rows returns holds at least 2 fragments, and an
\* input of 0 or 1 fragment gives the empty row list.
C2_RowsHaveTwo ==
    pc = "header" =>
        /\ \A r \in 1..Len(rows) : Len(rows[r]) >= 2
        /\ Len(ocr_results) <= 1 => rows = <<>>
\* a row was kept while a lone fragment was dropped mid-walk and another at the end
C2_Witness ==
    /\ pc = "header"
    /\ Len(rows) = 1
    /\ \E i, j \in 1..Len(ocr_results) :
          /\ YOf(ocr_results[i]) + y_thresh <= YOf(rows[1][1])
          /\ YOf(rows[1][Len(rows[1])]) + y_thresh <= YOf(ocr_results[j])

\* C3 as stated: of the amounts 10, 12, 9 and 500, detect_outlier_amounts flags 500.
C3_Stated_Flags500 ==
    pc = "done" /\ llm_items = ScenarioC => outliers = <<Q(500)>>
\* C3 as amended: on the amounts 10, 12, 9 and 500 detect_outlier_amounts flags
\* nothing, because 500 deviates from the mean by less than 3 population
\* standard deviations (16 * deviation^2 = 2157961 against 16 * 9 * variance = 6474051).
C3_NoOutlier ==
    pc = "done" /\ llm_items = ScenarioC =>
        /\ outliers = <<>>
        /\ Sq(RSub(Q(500), Mean(Amounts(valid_items)))) = <<2157961, 16>>
        /\ RMul(Q(9), PVariance(Amounts(valid_items))) = <<6474051, 16>>
C3_Witness ==
    pc = "done" /\ llm_items = ScenarioC /\ Len(valid_items) = 4 /\ suspicious = <<>>

\* the runs of a y-sorted list S: B holds the places where the next fragment is
\* y_thresh or more away, K the first places of the runs of two or more
BreaksOf(S) == {i \in 1..(Len(S) - 1) : Abs(YOf(S[i + 1]) - YOf(S[i])) >= y_thresh}
RunEnd(S, B, a) ==
    CHOOSE b \in a..Len(S) : (b = Len(S) \/ b \in B) /\ \A c \in a..(b - 1) : c \notin B
KeptStarts(S, B) ==
    {a \in 1..Len(S) : (a = 1 \/ (a - 1) \in B) /\ RunEnd(S, B, a) > a}
KthStart(K, k) == CHOOSE a \in K : Cardinality({b \in K : b < a}) = k - 1
MaximalRuns(S, B, K) ==
    /\ Len(rows) = Cardinality(K)
    /\ \A k \in 1..Len(rows) : rows[k] = SubSeq(S, KthStart(K, k), RunEnd(S, B, KthStart(K, k)))
InOneRowAtMost ==
    \A r1, r2 \in 1..Len(rows) : \A j1 \in 1..Len(rows[r1]) : \A j2 \in 1..Len(rows[r2]) :
        rows[r1][j1] = rows[r2][j2] => r1 = r2 /\ j1 = j2
TopToBottom ==
    \A r1, r2 \in 1..Len(rows) :
        r1 < r2 => YOf(rows[r2][1]) - YOf(rows[r1][Len(rows[r1])]) >= y_thresh
\* C9: over the fragments in ascending y order (ties in input order), the rows
\* are exactly the maximal runs of consecutive fragments in which each y is
\* less than y_thresh from the y of the fragment before it, those of length 1
\* left out; no fragment is in two rows; and a later row starts at least
\* y_thresh below the end of every earlier row.
C9_Chaining ==
    pc = "header" =>
        /\ MaximalRuns(sorted(ocr_results, 2), BreaksOf(sorted(ocr_results, 2)),
                       KeptStarts(sorted(ocr_results, 2), BreaksOf(sorted(ocr_results, 2))))
        /\ InOneRowAtMost
        /\ TopToBottom
\* two rows, the first of which drifts: its last fragment is y_thresh or more
\* below its first one
C9_Witness ==
    /\ pc = "header"
    /\ Len(rows) = 2
    /\ YOf(rows[1][Len(rows[1])]) - YOf(rows[1][1]) >= y_thresh


\* the texts of a row from left to right, stripped, and which of them hold a number
TextsOf(row) == [i \in 1..Len(row) |-> strip(sorted(row, 1)[i].text)]
NumIdx(texts) == {i \in 1..Len(texts) : _extract_number(texts[i]) # None}
MinOf(I) == CHOOSE i \in I : \A j \in I : i <= j
MaxOf(I) == CHOOSE i \in I : \A j \in I : j <= i
NameBefore(texts, k) == strip(join(SubSeq(texts, 1, k - 1)))
Parsed == pc \in {"parse", "error"} /\ row_i > 0

TwoNumbersResult(texts, I) ==
    /\ pc # "error"
    /\ item.tag = "dict"
    /\ item.item_quantity = _extract_number(texts[MinOf(I)])
    /\ item.item_amount = _extract_number(texts[MaxOf(I)])
    /\ item.item_quantity.v[1] > 0 =>
          RMul(item.item_rate.v, item.item_quantity.v) = item.item_amount.v
    /\ item.item_quantity.v[1] = 0 => item.item_rate = F(0)

TwoNumbersAfter(texts, I, minName) ==
    Cardinality(I) = 2 /\ Len(NameBefore(texts, MinOf(I))) >= minName
        => TwoNumbersResult(texts, I)

\* C4 as stated: every row with exactly two numeric fragments after a non-empty
\* name is parsed to quantity = first number, amount = second number and
\* rate = amount / quantity (0.0 for quantity 0), and nothing is raised.
C4_Stated_NonEmptyName ==
    Parsed => TwoNumbersAfter(TextsOf(rows[row_i]), NumIdx(TextsOf(rows[row_i])), 1)
\* C4 as amended: the same for every row with exactly two numeric fragments
\* after a name of at least 2 characters (a one-character name is rejected).
C4_TwoNumbers ==
    Parsed => TwoNumbersAfter(TextsOf(rows[row_i]), NumIdx(TextsOf(rows[row_i])), 2)
\* a row Ab, 0, 5: quantity 0, so the rate is 0.0 and nothing is divided
C4_Witness ==
    /\ Parsed
    /\ Cardinality(NumIdx(TextsOf(rows[row_i]))) = 2
    /\ item.tag = "dict"
    /\ item.item_quantity = F(0)
    /\ item.item_amount = F(5)
    /\ item.item_rate = F(0)

\* the issues and the confidence (in hundredths) an item is to get
NoName(it) == it.item_name \in {Absent, None, Str(<<>>)}
ExpectedIssues(it) ==
    (IF it.item_quantity.v[1] <= 0 THEN <<"non_positive_quantity">> ELSE <<>>)
    \o (IF it.item_amount.v[1] <= 0 THEN <<"non_positive_amount">> ELSE <<>>)
Clamp100(c) == IF c < 0 THEN 0 ELSE IF c > 100 THEN 100 ELSE c
ExpectedConf(it) ==
    Norm(Clamp100(95 - (IF NoName(it) THEN 40 ELSE 0) - 20 * Len(ExpectedIssues(it))), 100)
\* C5: for an item with a float quantity and amount, the issues are
\* non_positive_quantity (quantity <= 0) then non_positive_amount (amount <= 0),
\* ok holds iff there are none, and the confidence is 0.95 - 0.4 (name empty or
\* missing) - 0.2 per issue, clamped to [0, 1]; quantity -1 with a positive
\* amount and a name gives ok = False and confidence 0.75.
C5_Validator ==
    pc = "return" /\ arg.item_quantity.tag = "float" /\ arg.item_amount.tag = "float" =>
        /\ result.ok = (result.issues = <<>>)
        /\ result.issues = ExpectedIssues(arg)
        /\ result.conf = ExpectedConf(arg)
        /\ arg.item_quantity = F(-1) /\ arg.item_amount.v[1] > 0 /\ ~ NoName(arg) =>
              /\ result.ok = FALSE
              /\ result.issues = <<"non_positive_quantity">>
              /\ result.conf = <<3, 4>>
C5_Witness ==
    /\ pc = "return"
    /\ arg.item_quantity = F(-1)
    /\ arg.item_amount = F(2)
    /\ arg.item_name = Str(W_Ab)
    /\ result = [ok |-> FALSE, conf |-> <<3, 4>>, issues |-> <<"non_positive_quantity">>]

\* a field that is missing: an absent key, None or the empty text
Missing(v) == v \in {Absent, None, Str(<<>>)}
\* a field that is a non-empty text with a character no numeral has
NonNumeric(v) ==
    /\ v.tag = "str"
    /\ \E i \in 1..Len(v.v) : v.v[i] \notin Digits \cup {".", "+", "-", " "}
InvalidNumbers == [ok |-> FALSE, conf |-> Q(0), issues |-> <<"invalid_numbers">>]

\* C6 as stated: an item whose quantity or amount is non-numeric or missing
\* (absent key, None or empty) fails with (False, 0.0, [invalid_numbers]).
C6_Stated_MissingInvalid ==
    (/\ pc = "return"
     /\ \E k \in {"item_quantity", "item_amount"} : Missing(arg[k]) \/ NonNumeric(arg[k]))
        => result = InvalidNumbers
\* C6 as amended: an item whose quantity or amount is a non-numeric text fails
\* with (False, 0.0, [invalid_numbers]) and no other issue; a quantity or amount
\* that is absent, None or empty is read as 0 instead: unless the other field
\* is a non-numeric text, the item gets non_positive_quantity (or
\* non_positive_amount) and never invalid_numbers.
C6_InvalidNumbers ==
    pc = "return" =>
        IF NonNumeric(arg.item_quantity) \/ NonNumeric(arg.item_amount)
        THEN result = InvalidNumbers
        ELSE /\ result.issues # <<"invalid_numbers">>
             /\ Missing(arg.item_quantity) =>
                   \E i \in 1..Len(result.issues) : result.issues[i] = "non_positive_quantity"
             /\ Missing(arg.item_amount) =>
                   \E i \in 1..Len(result.issues) : result.issues[i] = "non_positive_amount"
\* the short circuit: a non-numeric quantity next to a non-positive amount
C6_Witness ==
    /\ pc = "return"
    /\ arg.item_quantity = Str(W_abc)
    /\ arg.item_amount = F(0)
    /\ result = InvalidNumbers

\* the average of the confidences validate_line_item gives the items
ValidatorAverage(its) ==
    IF its = <<>> THEN Q(0)
    ELSE RDiv(RSum([i \in 1..Len(its) |-> validate_line_item(its[i]).conf]), Q(Len(its)))

\* C7: the aggregate confidence of the accepted items is the average of the
\* confidences validate_line_item assigned to them, 0.0 for no items, and lies
\* in [0, 1].
C7_Stated_AverageOfValidator ==
    pc = "done" =>
        /\ overall_conf = ValidatorAverage(valid_items)
        /\ RLe(Q(0), overall_conf) /\ RLe(overall_conf, Q(1))

\* the leftmost fragment of a row
Leftmost(row) == CHOOSE i \in 1..Len(row) : \A j \in 1..Len(row) : row[i].bbox[1] <= row[j].bbox[1]
NamedItems(its) == \A i \in 1..Len(its) : its[i].item_name.tag = "str" /\ its[i].item_name.v # <<>>

\* C8: _parse_row returns None or an item with a non-empty name; a row with no
\* numeric fragment, or whose leftmost fragment is numeric, is rejected; no
\* item parse_line_items returns has an empty name.
C8_NeverEmptyName ==
    /\ pc = "parse" /\ row_i > 0 =>
          /\ item = None \/ (item.tag = "dict" /\ NamedItems(<<item>>))
          /\ (\A i \in 1..Len(rows[row_i]) : _extract_number(rows[row_i][i].text) = None)
                => item = None
          /\ _extract_number(rows[row_i][Leftmost(rows[row_i])].text) # None => item = None
          /\ NamedItems(items)
    /\ pc \in {"validate", "done"} /\ ~ llm_used => NamedItems(raw_items)
\* a row whose leftmost fragment is numeric was rejected
C8_Witness ==
    /\ pc = "parse" /\ row_i > 0
    /\ _extract_number(rows[row_i][Leftmost(rows[row_i])].text) # None
    /\ item = None

RECURSIVE AcceptedOf(_)
AcceptedOf(its) ==
    IF its = <<>> THEN <<>>
    ELSE (IF validate_line_item(its[1]).issues = <<>> THEN <<its[1]>> ELSE <<>>)
         \o AcceptedOf(Tail(its))
RECURSIVE RejectedOf(_)
RejectedOf(its) ==
    IF its = <<>> THEN <<>>
    ELSE (IF validate_line_item(its[1]).issues = <<>> THEN <<>>
          ELSE <<[item |-> its[1], issues |-> validate_line_item(its[1]).issues]>>)
         \o RejectedOf(Tail(its))

\* C10: the validation loop puts every raw item, in input order, in exactly
\* one of valid_items and suspicious: in valid_items iff validate_line_item
\* reports no issue, whatever its confidence, else in suspicious with its
\* issues; the two lists together count the items seen, and raw_items stays
\* what the extractor returned.
C10_Partition ==
    pc \in {"validate", "done"} =>
        /\ valid_items = AcceptedOf(SubSeq(raw_items, 1, val_i))
        /\ suspicious = RejectedOf(SubSeq(raw_items, 1, val_i))
        /\ Len(valid_items) + Len(suspicious) = val_i
        /\ pc = "done" => val_i = Len(raw_items)
        /\ raw_items = IF llm_used THEN llm_items ELSE items
\* an item accepted with a confidence under 0.85 next to a rejected one
C10_Witness ==
    /\ pc = "done"
    /\ low_conf_names # <<>>
    /\ valid_items # <<>>
    /\ suspicious # <<>>

\* C11 as stated: for every list of fewer than 11 amounts, of any values,
\* detect_outlier_amounts returns the empty list.  Violated by the code: at ten
\* amounts of which nine are equal the tenth deviates from the mean by exactly
\* 3 standard deviations, and the rounded abs(a - mean) can exceed the rounded
\* 3 * stdev, as it does on [7.0]*9 + [8.0], where [8.0] is returned.
C11_Stated_EmptyUnder11 ==
    (pc = "return" /\ Len(Amounts(arg)) < 11) => outliers = <<>>

====
